---- MODULE Spec2Model ----
(***************************************************************************)
(* The Snake minigame of the portfolio site, as a state machine.          *)
(*                                                                         *)
(* The repository holds two copies of the game: initSnakeGame in          *)
(* src/script.js (object gameState) and initSnakeGame in                  *)
(* src/unnamed/part_000 (object state).  The variable impl says which of  *)
(* the two pages is loaded; it is chosen in Init and never changes.       *)
(* Definitions modelled from part_000 carry the suffix _p0.               *)
(*                                                                         *)
(* A page is driven by browser events only: the Start button (reset),     *)
(* keys / pad buttons / swipes (setDir), the interval timer created by    *)
(* reset (tick), resize / theme / language changes (draw) and             *)
(* visibilitychange.                                                       *)
(***************************************************************************)
EXTENDS Integers, Sequences, FiniteSets, TLC

(***************************************************************************)
(* Program constant and model bounds                                       *)
(***************************************************************************)
\* gameState.size: side of the square grid
N == 18

\* bound: moves onto a free cell (neither food nor snake) per session
MaxMoves == 2
\* bound: Math.random is taken to produce only the cells (4,9) .. (4+FoodSpan,9)
\* of the row the snake starts in, and the cell (5,5)
FoodSpan == 2
\* bound: interval timers that may be registered at once
MaxTimers == 2
\* bound of the long runs: moves onto a free cell per session
MaxRun == 14
\* bound of the long runs: direction changes are taken only while fewer than
\* TurnBy such moves have been made in the session
TurnBy == 2
\* bound of the sessions at score 0: moves onto a free cell per session
MaxCurl == 4

VARIABLES
  impl,          \* which page is loaded: "script.js" or "part_000"
  gameState,     \* the module-level game object (state in part_000)
  intervals,     \* ids of the interval timers registered with the browser
  localStorage,  \* the key-value store: key -> stored string
  hidden,        \* document.hidden
  canvas,        \* what the last draw() painted
  collided,      \* history: this session has ended in a self-collision
  moves,         \* moves onto a free cell in this session (bounded)
  last           \* the last event handled, with its argument and outcome

vars == <<impl, gameState, intervals, localStorage, hidden,
          canvas, collided, moves, last>>

Impls == {"script.js", "part_000"}

(***************************************************************************)
(* Cells and directions                                                    *)
(***************************************************************************)
Cell(x, y) == [x |-> x, y |-> y]

Cells == [x : 0..(N - 1), y : 0..(N - 1)]

\* the four vectors the input adapters pass to setDir
Dirs == {Cell(0, -1), Cell(0, 1), Cell(-1, 0), Cell(1, 0)}

NoDir == Cell(0, 0)

Neg(d) == Cell(-d.x, -d.y)

\* snake.some((s) => s.x === p.x && s.y === p.y)
some(snake, p) == \E i \in 1..Len(snake) : snake[i].x = p.x /\ snake[i].y = p.y

\* the cells Math.floor(Math.random() * size) pairs range over in the model
RandomCells == {p \in Cells : \/ p.x \in 4..(4 + FoodSpan) /\ p.y = 9
                              \/ p.x = 5 /\ p.y = 5}

(***************************************************************************)
(* localStorage and the conversions around it                              *)
(***************************************************************************)
BestKey == "snake-best"

Digit == <<"0", "1", "2", "3", "4", "5", "6", "7", "8", "9">>

\* String(n) for a non-negative integer: its decimal digits
RECURSIVE String(_)
String(n) == IF n < 10 THEN <<Digit[n + 1]>>
             ELSE String(n \div 10) \o <<Digit[(n % 10) + 1]>>

DigitValue(c) == CHOOSE v \in 0..9 : Digit[v + 1] = c

\* parseInt(s, 10) for a string of decimal digits
RECURSIVE parseInt(_)
parseInt(s) == IF Len(s) = 1 THEN DigitValue(s[1])
               ELSE 10 * parseInt(SubSeq(s, 1, Len(s) - 1)) + DigitValue(s[Len(s)])

\* localStorage.getItem(key) || '0'
getItemOr0(store, key) == IF key \in DOMAIN store /\ Len(store[key]) > 0
                          THEN store[key] ELSE <<"0">>

\* localStorage.setItem(key, value), when it does not throw
setItem(store, key, value) ==
  [k \in DOMAIN store \cup {key} |-> IF k = key THEN value ELSE store[k]]

NoItems == [k \in {} |-> <<>>]

(***************************************************************************)
(* The game of src/script.js                                               *)
(***************************************************************************)
\* gameState.loop: null
NoLoop == 0

\* the object literal gameState, with best read from the store
InitialGameState(store) ==
  [snake   |-> <<>>,
   dir     |-> Cell(1, 0),
   nextDir |-> Cell(1, 0),
   food    |-> Cell(5, 5),
   running |-> FALSE,
   loop    |-> NoLoop,
   score   |-> 0,
   best    |-> parseInt(getItemOr0(store, BestKey))]

\* randomFood(), with p the cell of its last pass through the do-while
\* loop: the loop exits with p exactly when p is not a snake cell
randomFood(gs, p) == [p |-> p, exits |-> ~some(gs.snake, p)]

\* draw(): the picture is a function of the current state alone
draw(gs) == [snake |-> gs.snake, food |-> gs.food, over |-> ~gs.running]

\* setInterval returns a handle that no registered timer has (handles are
\* compared for equality only, so the smallest free one stands for it)
setInterval(timers) ==
  CHOOSE i \in 1..(MaxTimers + 1) : i \notin timers /\ \A j \in 1..(i - 1) : j \in timers

\* clearInterval(id)
clearInterval(timers, id) == timers \ {id}

\* reset() clearing the best score with the score
reset_clearBest(gs, timers, p) ==
  LET g1 == [gs EXCEPT !.snake = <<Cell(4, 9), Cell(3, 9), Cell(2, 9)>>,
                       !.dir = Cell(1, 0),
                       !.nextDir = Cell(1, 0)]
      f  == randomFood(g1, p)
      g2 == [g1 EXCEPT !.food = f.p, !.score = 0, !.best = 0,
                       !.running = TRUE]
      t1 == IF g2.loop # NoLoop THEN clearInterval(timers, g2.loop) ELSE timers
      g3 == [g2 EXCEPT !.loop = setInterval(t1)]
  IN  [gs |-> g3, timers |-> t1 \cup {g3.loop}, canvas |-> draw(g3),
       exits |-> f.exits]

\* reset() laying out a snake of two cells
reset_shortPose(gs, timers, p) ==
  LET g1 == [gs EXCEPT !.snake = <<Cell(4, 9), Cell(3, 9)>>,
                       !.dir = Cell(1, 0),
                       !.nextDir = Cell(1, 0)]
      f  == randomFood(g1, p)
      g2 == [g1 EXCEPT !.food = f.p, !.score = 0, !.running = TRUE]
      t1 == IF g2.loop # NoLoop THEN clearInterval(timers, g2.loop) ELSE timers
      g3 == [g2 EXCEPT !.loop = setInterval(t1)]
  IN  [gs |-> g3, timers |-> t1 \cup {g3.loop}, canvas |-> draw(g3),
       exits |-> f.exits]

\* reset() leaving the pending direction as it was
reset_keepPending(gs, timers, p) ==
  LET g1 == [gs EXCEPT !.snake = <<Cell(4, 9), Cell(3, 9), Cell(2, 9)>>,
                       !.dir = Cell(1, 0)]
      f  == randomFood(g1, p)
      g2 == [g1 EXCEPT !.food = f.p, !.score = 0, !.running = TRUE]
      t1 == IF g2.loop # NoLoop THEN clearInterval(timers, g2.loop) ELSE timers
      g3 == [g2 EXCEPT !.loop = setInterval(t1)]
  IN  [gs |-> g3, timers |-> t1 \cup {g3.loop}, canvas |-> draw(g3),
       exits |-> f.exits]

\* reset() with the clearInterval line left out
reset_noClear(gs, timers, p) ==
  LET g1 == [gs EXCEPT !.snake = <<Cell(4, 9), Cell(3, 9), Cell(2, 9)>>,
                       !.dir = Cell(1, 0),
                       !.nextDir = Cell(1, 0)]
      f  == randomFood(g1, p)
      g2 == [g1 EXCEPT !.food = f.p, !.score = 0, !.running = TRUE]
      g3 == [g2 EXCEPT !.loop = setInterval(timers)]
  IN  [gs |-> g3, timers |-> timers \cup {g3.loop}, canvas |-> draw(g3),
       exits |-> f.exits]

\* reset(), the click handler of the Start button, with p the cell
\* randomFood() draws last.  The result holds the new game object, the
\* registered timers, the picture and whether randomFood() returned.
reset(gs, timers, p) ==
  LET g1 == [gs EXCEPT !.snake = <<Cell(4, 9), Cell(3, 9), Cell(2, 9)>>,
                       !.dir = Cell(1, 0),
                       !.nextDir = Cell(1, 0)]
      f  == randomFood(g1, p)
      g2 == [g1 EXCEPT !.food = f.p, !.score = 0, !.running = TRUE]
      t1 == IF g2.loop # NoLoop THEN clearInterval(timers, g2.loop) ELSE timers
      g3 == [g2 EXCEPT !.loop = setInterval(t1)]
  IN  [gs |-> g3, timers |-> t1 \cup {g3.loop}, canvas |-> draw(g3),
       exits |-> f.exits]

\* setDir testing the pending direction instead of the committed one
setDir_vsPending(gs, d) ==
  IF gs.nextDir.x = -d.x /\ gs.nextDir.y = -d.y THEN gs
  ELSE [gs EXCEPT !.nextDir = d]

\* setDir without the reversal test
setDir_noCheck(gs, d) == [gs EXCEPT !.nextDir = d]

\* setDir committing the direction at once
setDir_immediate(gs, d) ==
  IF gs.dir.x = -d.x /\ gs.dir.y = -d.y THEN gs
  ELSE [gs EXCEPT !.nextDir = d, !.dir = d]

\* setDir taking only the first call made after a tick
setDir_locked(gs, d) ==
  IF (gs.dir.x = -d.x /\ gs.dir.y = -d.y) \/ gs.nextDir # gs.dir THEN gs
  ELSE [gs EXCEPT !.nextDir = d]

\* setDir(x, y)
setDir(gs, d) ==
  IF gs.dir.x = -d.x /\ gs.dir.y = -d.y THEN gs
  ELSE [gs EXCEPT !.nextDir = d]

\* the collision test of a walled grid: leaving the grid on one side and
\* entering on the other counts as a collision
collides_walls(gs, head) ==
  \/ some(gs.snake, head)
  \/ head.x - gs.snake[1].x \notin {-1, 0, 1}
  \/ head.y - gs.snake[1].y \notin {-1, 0, 1}

\* the collision test comparing the column only
collides_xOnly(gs, head) == \E i \in 1..Len(gs.snake) : gs.snake[i].x = head.x

\* the collision test made after the tail has been removed
collides_afterPop(gs, head) == some(SubSeq(gs.snake, 1, Len(gs.snake) - 1), head)

\* no collision test
collides_never(gs, head) == FALSE

\* the test tick() makes of the new head against the snake, before the
\* tail is removed: snake.some((s) => s.x === head.x && s.y === head.y)
collides(gs, head) == some(gs.snake, head)

\* tick() past its first line with the head not taken modulo the grid size
tickBody_noWrap(gs, store, cv, p, full) ==
  LET g1 == [gs EXCEPT !.dir = gs.nextDir] IN
  IF Len(g1.snake) = 0
  THEN [gs |-> g1, store |-> store, canvas |-> cv, out |-> "TypeError",
        exits |-> TRUE]
  ELSE
  LET head == Cell(g1.snake[1].x + g1.dir.x, g1.snake[1].y + g1.dir.y) IN
  IF collides(g1, head)
  THEN LET g2 == [g1 EXCEPT !.running = FALSE] IN
       [gs |-> g2, store |-> store, canvas |-> draw(g2), out |-> "collision",
        exits |-> TRUE]
  ELSE
  LET g2 == [g1 EXCEPT !.snake = <<head>> \o @] IN
  IF head.x = g2.food.x /\ head.y = g2.food.y
  THEN LET g3 == [g2 EXCEPT !.score = @ + 1] IN
       IF g3.score > g3.best
       THEN LET g4 == [g3 EXCEPT !.best = g3.score] IN
            IF full
            THEN [gs |-> g4, store |-> store, canvas |-> cv, out |-> "throw",
                  exits |-> TRUE]
            ELSE LET f  == randomFood(g4, p)
                     g5 == [g4 EXCEPT !.food = f.p] IN
                 [gs |-> g5,
                  store |-> setItem(store, BestKey, String(g4.best)),
                  canvas |-> draw(g5), out |-> "eat", exits |-> f.exits]
       ELSE LET f  == randomFood(g3, p)
                g5 == [g3 EXCEPT !.food = f.p] IN
            [gs |-> g5, store |-> store, canvas |-> draw(g5), out |-> "eat",
             exits |-> f.exits]
  ELSE LET g3 == [g2 EXCEPT !.snake = SubSeq(@, 1, Len(@) - 1)] IN
       [gs |-> g3, store |-> store, canvas |-> draw(g3), out |-> "move",
        exits |-> TRUE]

\* tick() past its first line with the tail removed before the collision
\* test and put back when the food is eaten
tickBody_popFirst(gs, store, cv, p, full) ==
  LET g0 == [gs EXCEPT !.dir = gs.nextDir] IN
  IF Len(g0.snake) = 0
  THEN [gs |-> g0, store |-> store, canvas |-> cv, out |-> "TypeError",
        exits |-> TRUE]
  ELSE
  LET tail == g0.snake[Len(g0.snake)]
      head == Cell((g0.snake[1].x + g0.dir.x + N) % N,
                   (g0.snake[1].y + g0.dir.y + N) % N)
      g1 == [g0 EXCEPT !.snake = SubSeq(@, 1, Len(@) - 1)] IN
  IF collides(g1, head)
  THEN LET g2 == [g1 EXCEPT !.running = FALSE] IN
       [gs |-> g2, store |-> store, canvas |-> draw(g2), out |-> "collision",
        exits |-> TRUE]
  ELSE
  LET g2 == [g1 EXCEPT !.snake = <<head>> \o @] IN
  IF head.x = g2.food.x /\ head.y = g2.food.y
  THEN LET g3 == [g2 EXCEPT !.score = @ + 1, !.snake = @ \o <<tail>>] IN
       IF g3.score > g3.best
       THEN LET g4 == [g3 EXCEPT !.best = g3.score] IN
            IF full
            THEN [gs |-> g4, store |-> store, canvas |-> cv, out |-> "throw",
                  exits |-> TRUE]
            ELSE LET f  == randomFood(g4, p)
                     g5 == [g4 EXCEPT !.food = f.p] IN
                 [gs |-> g5,
                  store |-> setItem(store, BestKey, String(g4.best)),
                  canvas |-> draw(g5), out |-> "eat", exits |-> f.exits]
       ELSE LET f  == randomFood(g3, p)
                g5 == [g3 EXCEPT !.food = f.p] IN
            [gs |-> g5, store |-> store, canvas |-> draw(g5), out |-> "eat",
             exits |-> f.exits]
  ELSE [gs |-> g2, store |-> store, canvas |-> draw(g2), out |-> "move",
        exits |-> TRUE]

\* tick() past its first line, with p the cell randomFood() draws last if it
\* is called and full saying that localStorage.setItem throws.  The result
\* holds the new game object, store and picture, the path taken (out) and
\* whether randomFood() returned.
tickBody(gs, store, cv, p, full) ==
  LET g1 == [gs EXCEPT !.dir = gs.nextDir] IN
  IF Len(g1.snake) = 0
  THEN \* snake[0] is undefined: reading .x throws a TypeError
       [gs |-> g1, store |-> store, canvas |-> cv, out |-> "TypeError",
        exits |-> TRUE]
  ELSE
  LET head == Cell((g1.snake[1].x + g1.dir.x + N) % N,
                   (g1.snake[1].y + g1.dir.y + N) % N) IN
  IF collides(g1, head)
  THEN LET g2 == [g1 EXCEPT !.running = FALSE] IN
       [gs |-> g2, store |-> store, canvas |-> draw(g2), out |-> "collision",
        exits |-> TRUE]
  ELSE
  LET g2 == [g1 EXCEPT !.snake = <<head>> \o @] IN
  IF head.x = g2.food.x /\ head.y = g2.food.y
  THEN LET g3 == [g2 EXCEPT !.score = @ + 1] IN
       IF g3.score > g3.best
       THEN LET g4 == [g3 EXCEPT !.best = g3.score] IN
            IF full
            THEN \* setItem throws: the rest of tick() is skipped
                 [gs |-> g4, store |-> store, canvas |-> cv, out |-> "throw",
                  exits |-> TRUE]
            ELSE LET f  == randomFood(g4, p)
                     g5 == [g4 EXCEPT !.food = f.p] IN
                 [gs |-> g5,
                  store |-> setItem(store, BestKey, String(g4.best)),
                  canvas |-> draw(g5), out |-> "eat", exits |-> f.exits]
       ELSE LET f  == randomFood(g3, p)
                g5 == [g3 EXCEPT !.food = f.p] IN
            [gs |-> g5, store |-> store, canvas |-> draw(g5), out |-> "eat",
             exits |-> f.exits]
  ELSE LET g3 == [g2 EXCEPT !.snake = SubSeq(@, 1, Len(@) - 1)] IN
       [gs |-> g3, store |-> store, canvas |-> draw(g3), out |-> "move",
        exits |-> TRUE]

\* tick() without its first line
tick_unguarded(gs, store, cv, p, full) == tickBody(gs, store, cv, p, full)

\* tick(), the interval callback: if (!gameState.running) return;
tick(gs, store, cv, p, full) ==
  IF ~gs.running
  THEN [gs |-> gs, store |-> store, canvas |-> cv, out |-> "noop", exits |-> TRUE]
  ELSE tickBody(gs, store, cv, p, full)

\* the visibilitychange handler: its body is empty
visibilitychange(gs, isHidden) == gs

(***************************************************************************)
(* The game of src/unnamed/part_000                                        *)
(***************************************************************************)
\* the object literal state, with best read from the store
state_p0(store) ==
  [snake   |-> <<>>,
   dir     |-> Cell(1, 0),
   nextDir |-> Cell(1, 0),
   food    |-> Cell(5, 5),
   running |-> FALSE,
   loop    |-> NoLoop,
   score   |-> 0,
   best    |-> parseInt(getItemOr0(store, BestKey))]

\* randomFood(), with p the cell of its last pass through the do-while
\* loop: the loop exits with p exactly when p is not a snake cell
randomFood_p0(gs, p) == [p |-> p, exits |-> ~some(gs.snake, p)]

\* draw(): the picture is a function of the current state alone
draw_p0(gs) == [snake |-> gs.snake, food |-> gs.food, over |-> ~gs.running]

\* reset(), the click handler of the Start button, with p the cell
\* randomFood() draws last.  The result holds the new game object, the
\* registered timers, the picture and whether randomFood() returned.
reset_p0(gs, timers, p) ==
  LET g1 == [gs EXCEPT !.snake = <<Cell(4, 9), Cell(3, 9), Cell(2, 9)>>,
                       !.dir = Cell(1, 0),
                       !.nextDir = Cell(1, 0)]
      f  == randomFood_p0(g1, p)
      g2 == [g1 EXCEPT !.food = f.p, !.score = 0, !.running = TRUE]
      t1 == IF g2.loop # NoLoop THEN clearInterval(timers, g2.loop) ELSE timers
      g3 == [g2 EXCEPT !.loop = setInterval(t1)]
  IN  [gs |-> g3, timers |-> t1 \cup {g3.loop}, canvas |-> draw_p0(g3),
       exits |-> f.exits]

\* setDir_p0(x, y)
setDir_p0(gs, d) ==
  IF gs.dir.x = -d.x /\ gs.dir.y = -d.y THEN gs
  ELSE [gs EXCEPT !.nextDir = d]

\* the test tick() makes of the new head against the snake, before the
\* tail is removed: snake.some((s) => s.x === head.x && s.y === head.y)
collides_p0(gs, head) == some(gs.snake, head)

\* tick() past its first line, with p the cell randomFood() draws last if it
\* is called and full saying that localStorage.setItem throws.  The result
\* holds the new game object, store and picture, the path taken (out) and
\* whether randomFood() returned.
tickBody_p0(gs, store, cv, p, full) ==
  LET g1 == [gs EXCEPT !.dir = gs.nextDir] IN
  IF Len(g1.snake) = 0
  THEN \* snake[0] is undefined: reading .x throws a TypeError
       [gs |-> g1, store |-> store, canvas |-> cv, out |-> "TypeError",
        exits |-> TRUE]
  ELSE
  LET head == Cell((g1.snake[1].x + g1.dir.x + N) % N,
                   (g1.snake[1].y + g1.dir.y + N) % N) IN
  IF collides_p0(g1, head)
  THEN LET g2 == [g1 EXCEPT !.running = FALSE] IN
       [gs |-> g2, store |-> store, canvas |-> draw_p0(g2), out |-> "collision",
        exits |-> TRUE]
  ELSE
  LET g2 == [g1 EXCEPT !.snake = <<head>> \o @] IN
  IF head.x = g2.food.x /\ head.y = g2.food.y
  THEN LET g3 == [g2 EXCEPT !.score = @ + 1] IN
       IF g3.score > g3.best
       THEN LET g4 == [g3 EXCEPT !.best = g3.score] IN
            IF full
            THEN \* setItem throws: the rest of tick() is skipped
                 [gs |-> g4, store |-> store, canvas |-> cv, out |-> "throw",
                  exits |-> TRUE]
            ELSE LET f  == randomFood_p0(g4, p)
                     g5 == [g4 EXCEPT !.food = f.p] IN
                 [gs |-> g5,
                  store |-> setItem(store, BestKey, String(g4.best)),
                  canvas |-> draw_p0(g5), out |-> "eat", exits |-> f.exits]
       ELSE LET f  == randomFood_p0(g3, p)
                g5 == [g3 EXCEPT !.food = f.p] IN
            [gs |-> g5, store |-> store, canvas |-> draw_p0(g5), out |-> "eat",
             exits |-> f.exits]
  ELSE LET g3 == [g2 EXCEPT !.snake = SubSeq(@, 1, Len(@) - 1)] IN
       [gs |-> g3, store |-> store, canvas |-> draw_p0(g3), out |-> "move",
        exits |-> TRUE]

\* tick(), the interval callback: if (!state.running) return;
tick_p0(gs, store, cv, p, full) ==
  IF ~gs.running
  THEN [gs |-> gs, store |-> store, canvas |-> cv, out |-> "noop", exits |-> TRUE]
  ELSE tickBody_p0(gs, store, cv, p, full)

\* the visibilitychange handler: state.running = !document.hidden
visibilitychange_p0(gs, isHidden) == [gs EXCEPT !.running = ~isHidden]

(***************************************************************************)
(* The loaded page: the handlers of the page impl names                    *)
(***************************************************************************)
Construct(store) ==
  IF impl = "script.js" THEN InitialGameState(store) ELSE state_p0(store)

Reset(p) ==
  IF impl = "script.js" THEN reset(gameState, intervals, p)
  ELSE reset_p0(gameState, intervals, p)

SetDir(d) ==
  IF impl = "script.js" THEN setDir(gameState, d) ELSE setDir_p0(gameState, d)

Tick(p, full) ==
  IF impl = "script.js"
  THEN tick(gameState, localStorage, canvas, p, full)
  ELSE tick_p0(gameState, localStorage, canvas, p, full)

Draw ==
  IF impl = "script.js" THEN draw(gameState) ELSE draw_p0(gameState)

VisibilityHandler(isHidden) ==
  IF impl = "script.js" THEN visibilitychange(gameState, isHidden)
  ELSE visibilitychange_p0(gameState, isHidden)

Event(op, arg, out) == [op |-> op, arg |-> arg, out |-> out]

\* the stored best scores a page may find when it loads: none, or "1"
StoredAtLoad == {NoItems, [k \in {BestKey} |-> String(1)]}

(***************************************************************************)
(* Init: initSnakeGame() has run                                           *)
(***************************************************************************)
Init ==
  /\ impl \in Impls
  /\ localStorage \in StoredAtLoad
  /\ gameState = Construct(localStorage)
  /\ intervals = {}
  /\ hidden = FALSE
  /\ canvas = Draw
  /\ collided = FALSE
  /\ moves = 0
  /\ last = Event("init", NoDir, "ok")

(***************************************************************************)
(* Events.  A hidden page receives no clicks, keys or touches.             *)
(***************************************************************************)
\* click on the Start button
Start ==
  /\ ~hidden
  /\ Cardinality(intervals) < MaxTimers
  /\ \E p \in RandomCells :
       LET r == Reset(p) IN
       /\ r.exits
       /\ gameState' = r.gs
       /\ intervals' = r.timers
       /\ canvas' = r.canvas
  /\ collided' = FALSE
  /\ moves' = 0
  /\ last' = Event("reset", NoDir,
                   IF gameState.loop # NoLoop THEN "restart" ELSE "first")
  /\ UNCHANGED <<impl, localStorage, hidden>>

\* a key, a pad button or a swipe: handleKey, the pad click handler and
\* handleTouchMove all end in setDir with one of the four unit vectors
Input ==
  /\ ~hidden
  /\ \E d \in Dirs :
       /\ gameState' = SetDir(d)
       /\ last' = Event("setDir", d,
                         IF gameState'.nextDir = d THEN "stored" ELSE "ignored")
  /\ UNCHANGED <<impl, intervals, localStorage, hidden, canvas,
                 collided, moves>>

\* the cell ahead of the head, in the pending direction
Ahead ==
  Cell((gameState.snake[1].x + gameState.nextDir.x + N) % N,
       (gameState.snake[1].y + gameState.nextDir.y + N) % N)

\* the next tick would take the head to a cell that is neither food nor snake
FreeAhead ==
  /\ gameState.running
  /\ Len(gameState.snake) > 0
  /\ ~some(gameState.snake, Ahead)
  /\ Ahead # gameState.food

\* the next tick would take the head to the food cell without a collision
FoodAhead ==
  /\ gameState.running
  /\ Len(gameState.snake) > 0
  /\ ~some(gameState.snake, Ahead)
  /\ Ahead = gameState.food

\* a registered interval timer calls tick; a call of localStorage.setItem in
\* it may throw (quota exceeded)
TimerFires ==
  \E id \in intervals, p \in RandomCells, full \in BOOLEAN :
    LET r == Tick(p, full) IN
    /\ r.exits
    /\ full => r.out = "throw"
    /\ r.out # "eat" => p = Cell(5, 5)      \* randomFood() was not called
    /\ FreeAhead => moves < MaxMoves
    /\ gameState' = r.gs
    /\ localStorage' = r.store
    /\ canvas' = r.canvas
    /\ collided' = (collided \/ r.out = "collision")
    /\ moves' = IF FreeAhead THEN moves + 1 ELSE moves
    /\ last' = Event("tick", NoDir, r.out)
    /\ UNCHANGED <<impl, intervals, hidden>>

\* draw() without the fillRect that clears the canvas: the game-over overlay
\* of an earlier picture stays
Redraw_noClear ==
  /\ canvas' = [Draw EXCEPT !.over = canvas.over \/ Draw.over]
  /\ last' = Event("draw", NoDir, "ok")
  /\ UNCHANGED <<impl, gameState, intervals, localStorage,
                 hidden, collided, moves>>

\* resize, theme change (updateSnakeColors) or language change
\* (snakeRedraw): draw() is called
Redraw ==
  /\ canvas' = Draw
  /\ last' = Event("draw", NoDir, "ok")
  /\ UNCHANGED <<impl, gameState, intervals, localStorage,
                 hidden, collided, moves>>

\* the tab is hidden or shown again
VisibilityChange ==
  /\ hidden' = ~hidden
  /\ gameState' = VisibilityHandler(hidden')
  /\ last' = Event("visibilitychange", NoDir, "ok")
  /\ UNCHANGED <<impl, intervals, localStorage, canvas,
                 collided, moves>>

Next == Start \/ Input \/ TimerFires \/ Redraw \/ VisibilityChange

Spec == Init /\ [][Next]_vars

(***************************************************************************)
(* Long runs: the same events, with direction changes taken only in the    *)
(* first TurnBy cells of a session and the head let run MaxRun cells, far  *)
(* enough to leave the grid on each of its four sides.                     *)
(***************************************************************************)
\* a key, a pad button or a swipe early in the session
InputEarly ==
  /\ moves < TurnBy
  /\ Input

\* a registered interval timer calls tick
TimerFiresRun ==
  \E id \in intervals, p \in RandomCells, full \in BOOLEAN :
    LET r == Tick(p, full) IN
    /\ r.exits
    /\ full => r.out = "throw"
    /\ r.out # "eat" => p = Cell(5, 5)      \* randomFood() was not called
    /\ FreeAhead => moves < MaxRun
    /\ gameState' = r.gs
    /\ localStorage' = r.store
    /\ canvas' = r.canvas
    /\ collided' = (collided \/ r.out = "collision")
    /\ moves' = IF FreeAhead THEN moves + 1 ELSE moves
    /\ last' = Event("tick", NoDir, r.out)
    /\ UNCHANGED <<impl, intervals, hidden>>

NextRun == Start \/ InputEarly \/ TimerFiresRun \/ Redraw \/ VisibilityChange

SpecRun == Init /\ [][NextRun]_vars

(***************************************************************************)
(* Filling the grid: one line of play of the same program, in which the    *)
(* player sweeps the rows from left to right, stepping down one row when   *)
(* the cell to the right is taken, and Math.random happens to put each new *)
(* food on the cell the head enters next, so that every tick eats.         *)
(***************************************************************************)
\* the direction that play takes with the given snake
SweepDir(snake) ==
  IF some(snake, Cell((snake[1].x + 1) % N, snake[1].y))
  THEN Cell(0, 1) ELSE Cell(1, 0)

\* the cell the head enters next in that play
SweepNext(snake) ==
  Cell((snake[1].x + SweepDir(snake).x) % N,
       (snake[1].y + SweepDir(snake).y) % N)

\* the first click on the Start button, with the food drawn at (5,9)
StartFill ==
  /\ gameState.loop = NoLoop
  /\ Start
  /\ gameState'.food = SweepNext(gameState'.snake)

\* the key that turns the snake the way the sweep goes
InputFill ==
  /\ gameState.running
  /\ gameState.nextDir # SweepDir(gameState.snake)
  /\ Input
  /\ gameState'.nextDir = SweepDir(gameState.snake)

\* the timer calls tick, the head eats, and randomFood() returns the cell
\* the head enters next
TimerFiresFill ==
  /\ gameState.running
  /\ gameState.nextDir = SweepDir(gameState.snake)
  /\ \E id \in intervals, p \in Cells :
       LET r == Tick(p, FALSE) IN
       /\ r.exits
       /\ r.out = "eat"
       /\ p = SweepNext(r.gs.snake)
       /\ gameState' = r.gs
       /\ localStorage' = r.store
       /\ canvas' = r.canvas
       /\ last' = Event("tick", NoDir, r.out)
  /\ UNCHANGED <<impl, intervals, hidden, collided, moves>>

NextFill == StartFill \/ InputFill \/ TimerFiresFill

SpecFill == Init /\ [][NextFill]_vars

(***************************************************************************)
(* Sessions at score 0: the same events, with a session followed for       *)
(* MaxCurl moves as long as the head does not reach the food, so that the  *)
(* three-cell snake can turn all the way round.                            *)
(***************************************************************************)
\* a registered interval timer calls tick, and the head does not reach the
\* food
TimerFiresCurl ==
  \E id \in intervals :
    LET r == Tick(Cell(5, 5), FALSE) IN
    /\ ~FoodAhead
    /\ FreeAhead => moves < MaxCurl
    /\ gameState' = r.gs
    /\ localStorage' = r.store
    /\ canvas' = r.canvas
    /\ collided' = (collided \/ r.out = "collision")
    /\ moves' = IF FreeAhead THEN moves + 1 ELSE moves
    /\ last' = Event("tick", NoDir, r.out)
    /\ UNCHANGED <<impl, intervals, hidden>>

NextCurl == Start \/ Input \/ TimerFiresCurl \/ Redraw \/ VisibilityChange

SpecCurl == Init /\ [][NextCurl]_vars

(***************************************************************************)
(* Properties                                                              *)
(***************************************************************************)
\* the session fields other than the one named unchanged by a step
OnlyNextDirMayChange ==
  /\ [gameState' EXCEPT !.nextDir = gameState.nextDir] = gameState
  /\ intervals' = intervals
  /\ localStorage' = localStorage
  /\ canvas' = canvas

\* C1: in every reachable state (before the first start, while running and
\* after game over) the cells of the snake are pairwise distinct.
C1_SnakeCellsDistinct ==
  \A i, j \in 1..Len(gameState.snake) :
    i # j => gameState.snake[i] # gameState.snake[j]

\* C1 witness: a tick has just refused to move the head onto the snake: the
\* game is over with a snake of four or more cells.
C1_Witness ==
  /\ last.op = "tick" /\ last.out = "collision"
  /\ Len(gameState.snake) >= 4
  /\ some(gameState.snake, Ahead)

\* C2: in every reachable state the food cell is not a snake cell.
C2_FoodNotInSnake == ~some(gameState.snake, gameState.food)

\* C3: once a self-collision has ended the session, running stays false
\* until start() is called (collided is cleared by start only).
C3_OverUntilStart == collided => ~gameState.running

\* C4: a tick called while running is false changes nothing: the game
\* object, the store, the picture and the timers are as before.
C4_StoppedTickChangesNothing ==
  [][(last'.op = "tick" /\ ~gameState.running)
       => /\ gameState' = gameState
          /\ localStorage' = localStorage
          /\ canvas' = canvas
          /\ intervals' = intervals]_vars

\* C4 witness: after game over the timer has fired again and tick returned
\* at its first line.
C4_Witness ==
  /\ collided /\ ~gameState.running
  /\ last.op = "tick" /\ last.out = "noop"

\* C5: setDir called with the exact negation of the committed direction
\* never changes the pending direction, whatever the pending direction is.
C5_ReversalNeverStored ==
  [][(last'.op = "setDir" /\ last'.arg = Neg(gameState.dir))
       => gameState'.nextDir = gameState.nextDir]_vars

\* C5 witness: the reversal was refused while a different direction, stored
\* by an earlier call since the last tick, was pending.
C5_Witness ==
  /\ last.op = "setDir" /\ last.arg = Neg(gameState.dir)
  /\ gameState.running
  /\ gameState.nextDir # gameState.dir

\* C6: a tick executed while running never commits the exact opposite of
\* the direction committed before it in the session (by the previous tick,
\* or by start() for the first tick).
C6_NoReversalBetweenTicks ==
  [][(last'.op = "tick" /\ gameState.running)
       => gameState'.dir # Neg(gameState.dir)]_vars

\* C6 witness: the second or a later tick of a session has committed a
\* turn: the head left the row or column of the cell behind it.
C6_Witness ==
  /\ last.op = "tick" /\ last.out = "move"
  /\ gameState.snake[2] # Cell(4, 9)
  /\ gameState.dir # Cell(1, 0)
  /\ gameState.snake[1].x - gameState.snake[2].x
       # gameState.snake[2].x - gameState.snake[3].x

\* C7: a tick whose new head is a snake cell, the tail cell included, ends
\* the game and leaves snake, food, score and best score as they were.
C7_CollisionEndsGame ==
  [][(/\ last'.op = "tick"
      /\ gameState.running
      /\ Len(gameState.snake) > 0
      /\ some(gameState.snake, Ahead))
       => /\ ~gameState'.running
          /\ gameState'.snake = gameState.snake
          /\ gameState'.food = gameState.food
          /\ gameState'.score = gameState.score
          /\ gameState'.best = gameState.best]_vars

\* C7 witness: the game has just ended on the tail cell, the cell the move
\* would have vacated.
C7_Witness ==
  /\ last.op = "tick" /\ last.out = "collision"
  /\ ~gameState.running
  /\ Ahead = gameState.snake[Len(gameState.snake)]

\* C8: in the game-over state a collision leaves, no interval timer is
\* registered any more.
C8_TimerStoppedAtGameOver ==
  (collided /\ ~gameState.running) => intervals = {}

\* C9: at most one interval timer is registered, and it is the one
\* gameState.loop names.
C9_AtMostOneTimer ==
  /\ Cardinality(intervals) <= 1
  /\ gameState.loop # NoLoop => intervals = {gameState.loop}

\* C9 witness: start() was called while a timer of an earlier start() was
\* registered.
C9_Witness ==
  /\ last.op = "reset" /\ last.out = "restart"
  /\ intervals # {}

\* C10 as stated: setDir called while running is false changes nothing.
C10_StoppedSetDirChangesNothing ==
  [][(last'.op = "setDir" /\ ~gameState.running)
       => gameState' = gameState]_vars

\* C10 amended: setDir called while running is false changes no field
\* other than the pending direction.
C10_StoppedSetDirKeepsTheRest ==
  [][(last'.op = "setDir" /\ ~gameState.running)
       => OnlyNextDirMayChange]_vars

\* C10 witness: a call made while running is false (before the first start
\* or after game over) has stored a new pending direction.
C10_Witness ==
  /\ last.op = "setDir" /\ last.out = "stored"
  /\ ~gameState.running
  /\ gameState.nextDir # gameState.dir

\* C11 as stated: the direction a tick commits is the vector of the last
\* setDir call received before it.
C11_LastCallWins ==
  [][(last.op = "setDir" /\ last'.op = "tick" /\ gameState.running)
       => gameState'.dir = last.arg]_vars

\* C11 amended: the direction a tick commits is the vector of the last
\* setDir call received before it unless that vector is the exact negation
\* of the committed direction; then the call counts for nothing and the
\* tick commits the pending direction the earlier calls left.
C11_LastAcceptedCallWins ==
  [][(last.op = "setDir" /\ last'.op = "tick" /\ gameState.running)
       => gameState'.dir = IF last.arg = Neg(gameState.dir)
                           THEN gameState.nextDir
                           ELSE last.arg]_vars

\* C11 witness: the first tick of a session has committed a vector other
\* than the starting direction, and the head has moved along it.
C11_Witness ==
  /\ last.op = "tick" /\ last.out = "move"
  /\ gameState.dir # Cell(1, 0)
  /\ gameState.snake[2] = Cell(4, 9)
  /\ gameState.snake[1] = Cell(4 + gameState.dir.x, 9 + gameState.dir.y)

\* C12: a setDir call never takes effect at once: it changes no field of
\* the session other than the pending direction, and the committed direction
\* changes only in a tick (or in the reset that starts a session), so at
\* most once between two ticks.
C12_SetDirOnlyPending ==
  [][/\ last'.op = "setDir" => OnlyNextDirMayChange
     /\ gameState'.dir # gameState.dir => last'.op \in {"tick", "reset"}]_vars

\* C12 witness: in a running session an accepted call has stored a pending
\* direction while the committed one still is what the last tick left.
C12_Witness ==
  /\ last.op = "setDir" /\ last.out = "stored"
  /\ gameState.running
  /\ gameState.nextDir = last.arg
  /\ gameState.dir # last.arg
  /\ Len(gameState.snake) > 3

\* C13: a tick of a running session whose wrapped new head is neither a
\* snake cell nor the food cell moves the snake: the new snake is the new
\* head followed by the old snake without its last cell, and score, best,
\* food and running are unchanged.  From the start pose with the food not
\* at (5,9) one such tick gives [(5,9),(4,9),(3,9)].
C13_MoveTick ==
  [][(last'.op = "tick" /\ FreeAhead)
       => /\ gameState'.snake =
               <<Ahead>> \o SubSeq(gameState.snake, 1, Len(gameState.snake) - 1)
          /\ gameState'.score = gameState.score
          /\ gameState'.best = gameState.best
          /\ gameState'.food = gameState.food
          /\ gameState'.running = gameState.running
          /\ (gameState.snake = <<Cell(4, 9), Cell(3, 9), Cell(2, 9)>>
              /\ gameState.nextDir = Cell(1, 0))
             => gameState'.snake = <<Cell(5, 9), Cell(4, 9), Cell(3, 9)>>]_vars

\* C13 witness: the first tick after start has moved the snake one cell to
\* the right with the food elsewhere.
C13_Witness ==
  /\ last.op = "tick" /\ last.out = "move"
  /\ gameState.snake = <<Cell(5, 9), Cell(4, 9), Cell(3, 9)>>
  /\ gameState.food # Cell(5, 9)
  /\ gameState.score = 0
  /\ gameState.running

\* C14: a tick whose new head is the food cell grows the snake by one (the
\* head is prepended, the tail kept), raises the score by one and replaces
\* the food by a cell that is not in the grown snake.  From the start pose
\* with the food at (5,9) it gives [(5,9),(4,9),(3,9),(2,9)] and score 1.
C14_EatTick ==
  [][(last'.op = "tick" /\ FoodAhead)
       => /\ gameState'.snake = <<Ahead>> \o gameState.snake
          /\ gameState'.score = gameState.score + 1
          /\ ~some(gameState'.snake, gameState'.food)]_vars

\* C15: movement wraps on both axes and in both senses: a head at coordinate
\* N-1 moving +1 arrives at 0 and a head at 0 moving -1 arrives at N-1, and
\* a tick ends the game exactly when the wrapped destination cell is a cell
\* of the snake, whether or not an edge was crossed.
C15_ToroidalWrap ==
  [][(last'.op = "tick" /\ gameState.running /\ Len(gameState.snake) > 0)
       => LET h == gameState.snake[1]
              d == gameState.nextDir
              wrap(c) == IF c = N THEN 0 ELSE IF c = -1 THEN N - 1 ELSE c
              dest == Cell(wrap(h.x + d.x), wrap(h.y + d.y))
          IN  IF some(gameState.snake, dest)
              THEN ~gameState'.running /\ gameState'.snake = gameState.snake
              ELSE gameState'.running /\ gameState'.snake[1] = dest]_vars

\* C15 witness: a head at column 0 moving left has arrived at column N-1 and
\* the session goes on.
C15_Witness ==
  /\ last.op = "tick" /\ last.out \in {"move", "eat"}
  /\ gameState.running
  /\ gameState.dir = Cell(-1, 0)
  /\ gameState.snake[1].x = N - 1
  /\ gameState.snake[2].x = 0

\* the other three crossings, reached in the long runs as well
C15_WrapRight ==
  /\ last.op = "tick" /\ gameState.running /\ gameState.dir = Cell(1, 0)
  /\ gameState.snake[1].x = 0 /\ gameState.snake[2].x = N - 1
C15_WrapUp ==
  /\ last.op = "tick" /\ gameState.running /\ gameState.dir = Cell(0, -1)
  /\ gameState.snake[1].y = N - 1 /\ gameState.snake[2].y = 0
C15_WrapDown ==
  /\ last.op = "tick" /\ gameState.running /\ gameState.dir = Cell(0, 1)
  /\ gameState.snake[1].y = 0 /\ gameState.snake[2].y = N - 1

\* C16: over a tick the length of the snake stays the same or grows by
\* exactly one; it never decreases.
C16_LengthNeverShrinks ==
  [][last'.op = "tick"
       => Len(gameState'.snake) \in
            {Len(gameState.snake), Len(gameState.snake) + 1}]_vars

\* C16 witness: ticks have grown the snake twice and then ended the session
\* with its length kept.
C16_Witness ==
  /\ last.op = "tick" /\ last.out = "collision"
  /\ Len(gameState.snake) = 5
  /\ gameState.score = 2

\* C17: start() called in any state (never started, running, paused, game
\* over) gives a fresh session: snake [(4,9),(3,9),(2,9)], committed and
\* pending direction (1,0), score 0, running true and the food on a cell
\* outside the snake; the best score keeps its value.
C17_StartGivesFreshSession ==
  [][last'.op = "reset"
       => /\ gameState'.snake = <<Cell(4, 9), Cell(3, 9), Cell(2, 9)>>
          /\ gameState'.dir = Cell(1, 0)
          /\ gameState'.nextDir = Cell(1, 0)
          /\ gameState'.score = 0
          /\ gameState'.running
          /\ ~some(gameState'.snake, gameState'.food)
          /\ gameState'.best = gameState.best]_vars

\* C17 witness: a session that had scored has been started again, and the
\* best score it reached is still there.
C17_Witness ==
  /\ last.op = "reset" /\ last.out = "restart"
  /\ gameState.best = 2
  /\ gameState.score = 0
  /\ gameState.snake = <<Cell(4, 9), Cell(3, 9), Cell(2, 9)>>
  /\ gameState.running

\* C18: when a tick raises the score above the best score, the best score
\* becomes the new score and the same value is written under 'snake-best';
\* hence after every operation the stored value (0 when nothing is stored)
\* equals the best score in memory.
C18_StoredBestEqualsBest ==
  parseInt(getItemOr0(localStorage, BestKey)) = gameState.best

\* C19: a persistence failure does not halt or corrupt the game: when the
\* best-score write throws in a tick in which the snake eats and sets a new
\* best, that tick still puts the food on a cell outside the snake and
\* redraws.
C19_WriteFailureHarmless ==
  (last.op = "tick" /\ last.out = "throw")
    => /\ ~some(gameState.snake, gameState.food)
       /\ canvas = Draw

\* C20: food respawn always terminates: whenever a tick is about to eat, and
\* so to call randomFood(), the snake after its growth is shorter than N*N
\* cells, so that a cell is left for the food.
C20_RoomForFood == FoodAhead => Len(gameState.snake) + 1 < N * N

\* C21: self-collision is the only way a running game stops: running goes
\* from true to false only in a tick whose new head is a cell of the snake;
\* no edge and no outside event (the tab being hidden) sets it to false.
C21_OnlyCollisionStops ==
  [][(gameState.running /\ ~gameState'.running)
       => /\ last'.op = "tick"
          /\ Len(gameState.snake) > 0
          /\ some(gameState.snake, Ahead)]_vars

\* C22: draw can be called in any state (before the first start, while
\* running, after game over); it changes no field of the session, the
\* picture it leaves is the one of the current state, and calling it twice
\* in a row is the same as calling it once.
C22_DrawChangesNothing ==
  [][last'.op = "draw"
       => /\ gameState' = gameState
          /\ intervals' = intervals
          /\ localStorage' = localStorage
          /\ canvas' = Draw
          /\ last.op = "draw" => canvas' = canvas]_vars

\* C22 witness: draw has been called after a game over and shows the
\* overlay.
C22_Witness ==
  /\ last.op = "draw"
  /\ collided /\ ~gameState.running
  /\ canvas.over
  /\ Len(canvas.snake) > 3

\* C23: in every state after the first start() the snake has at least three
\* cells, and each cell and the one after it are neighbours on the torus:
\* they differ by one step, modulo N, in exactly one axis.
C23_SnakeIsAChain ==
  gameState.loop # NoLoop
    => /\ Len(gameState.snake) >= 3
       /\ \A i \in 1..(Len(gameState.snake) - 1) :
            LET a  == gameState.snake[i]
                b  == gameState.snake[i + 1]
                dx == (a.x - b.x + N) % N
                dy == (a.y - b.y + N) % N
            IN  \/ dx \in {1, N - 1} /\ dy = 0
                \/ dy \in {1, N - 1} /\ dx = 0

\* C23 witness: the snake lies across the left and right edge of the grid
\* and has turned since.
C23_Witness ==
  /\ gameState.loop # NoLoop
  /\ \E i \in 1..(Len(gameState.snake) - 1) :
       gameState.snake[i].x = 0 /\ gameState.snake[i + 1].x = N - 1
  /\ gameState.snake[1].y # 9

\* C24: in every state each cell of the snake and the food cell have
\* integer coordinates from 0 to N-1, with N = 18.
C24_CellsOnGrid ==
  /\ N = 18
  /\ gameState.food \in Cells
  /\ \A i \in 1..Len(gameState.snake) : gameState.snake[i] \in Cells

\* C24 witness: the head has left the grid at the bottom and come back in
\* at the top, with the food on the grid.
C24_Witness ==
  /\ gameState.running
  /\ Len(gameState.snake) >= 3
  /\ gameState.snake[1].y = 0
  /\ gameState.snake[2].y = N - 1
  /\ gameState.food \in Cells

\* C25: an accepted input is applied by the very next tick: when setDir(v)
\* with v not the negation of the committed direction is the last call
\* before a tick of a running session, that tick commits v and takes as new
\* head the old head plus v modulo N (ending the session instead when that
\* cell is a cell of the snake).  Calls in between that are refused change
\* nothing of this: an accepted vector is the pending direction at once, and
\* a tick commits the pending direction and moves the head along it.
C25_InputAppliedByNextTick ==
  [][/\ (last'.op = "setDir" /\ last'.arg # Neg(gameState.dir))
         => gameState'.nextDir = last'.arg
     /\ (last'.op = "tick" /\ gameState.running /\ Len(gameState.snake) > 0)
         => /\ gameState'.dir = gameState.nextDir
            /\ IF some(gameState.snake, Ahead)
               THEN ~gameState'.running
               ELSE gameState'.snake[1] = Ahead
     /\ (/\ last.op = "setDir" /\ last.arg # Neg(gameState.dir)
         /\ last'.op = "tick"
         /\ gameState.running /\ Len(gameState.snake) > 0)
         => LET v    == last.arg
                dest == Cell((gameState.snake[1].x + v.x + N) % N,
                             (gameState.snake[1].y + v.y + N) % N)
            IN  /\ gameState'.dir = v
                /\ IF some(gameState.snake, dest)
                   THEN ~gameState'.running
                   ELSE gameState'.snake[1] = dest]_vars

\* C25 witness: after an earlier tick an input turned the snake, and the
\* tick that followed has moved the head along the new vector.
C25_Witness ==
  /\ last.op = "tick" /\ last.out \in {"move", "eat"}
  /\ gameState.snake[3] = Cell(4, 9)
  /\ gameState.snake[2] = Cell(5, 9)
  /\ gameState.snake[1] = Cell(5, 9 + gameState.dir.y)
  /\ gameState.dir.y # 0

\* C26: in every state the pending direction is not the exact opposite of
\* the committed direction, and both are one of the four unit vectors.
C26_PendingNeverOpposite ==
  /\ gameState.nextDir # Neg(gameState.dir)
  /\ gameState.dir \in Dirs
  /\ gameState.nextDir \in Dirs

\* C26 witness: a tick has committed a turn upwards and a later input has
\* stored a pending direction across it.
C26_Witness ==
  /\ last.op = "setDir"
  /\ gameState.dir = Cell(0, -1)
  /\ gameState.nextDir = Cell(-1, 0)
  /\ gameState.snake[1].y = gameState.snake[2].y - 1

\* C27: in every state after the first start() the score is the length of
\* the snake minus 3.
C27_ScoreIsGrowth ==
  gameState.loop # NoLoop => gameState.score = Len(gameState.snake) - 3

\* C27 witness: two eating ticks have taken the score to 2 and the snake to
\* five cells.
C27_Witness ==
  /\ last.op = "tick" /\ last.out = "eat"
  /\ gameState.score = 2
  /\ Len(gameState.snake) = 5

\* C28: in every state the best score is at least the score, and no
\* operation, start() included, lowers the best score.
C28_BestCoversScore ==
  /\ [](gameState.best >= gameState.score)
  /\ [][gameState'.best >= gameState.best]_vars

\* C28 witness: in a second session the score has risen while the best
\* score of the first session stands above it.
C28_Witness ==
  /\ last.op = "tick" /\ last.out = "eat"
  /\ gameState.score = 1
  /\ gameState.best = 2

\* C29: the body of tick() never runs on an empty snake: in every state in
\* which an interval timer is registered and running is true the snake has
\* at least three cells, and no tick has failed reading snake[0].
C29_TickHasAHead ==
  /\ (intervals # {} /\ gameState.running) => Len(gameState.snake) >= 3
  /\ last.out # "TypeError"

\* C29 witness: before the first start() an outside event has set running
\* to true with the snake still empty, and no timer is registered.
C29_Witness ==
  /\ gameState.running
  /\ Len(gameState.snake) = 0
  /\ intervals = {}
  /\ gameState.loop = NoLoop

\* C30: a self-collision cannot happen while the score is 0: a session that
\* a tick has ended by collision has a snake of at least four cells.
C30_NoCollisionAtScoreZero ==
  collided => (Len(gameState.snake) >= 4 /\ gameState.score >= 1)

\* C30 witness: the three-cell snake has turned all the way round and its
\* head is back on the cell it started from, the session still at score 0.
C30_Witness ==
  /\ last.op = "tick" /\ last.out = "move"
  /\ ~collided
  /\ gameState.score = 0
  /\ moves = 4
  /\ gameState.snake[1] = Cell(4, 9)
  /\ Len(gameState.snake) = 3

\* C31: the simulators of src/script.js and src/unnamed/part_000 are
\* equivalent on start, setDir and tick: they start from the same game
\* object, and in every state either of them reaches, each of the three
\* operations, given the same direction, the same food cell drawn and the
\* same outcome of the store write, leaves the same game object (snake,
\* committed and pending direction, food, running, score, best score) and
\* the same store in both.  Run side by side on one sequence of operations
\* the two are therefore equal after every step.
C31_SimulatorsAgree ==
  /\ \A store \in StoredAtLoad : InitialGameState(store) = state_p0(store)
  /\ \A p \in RandomCells :
       LET a == reset(gameState, intervals, p)
           b == reset_p0(gameState, intervals, p)
       IN  a.gs = b.gs /\ a.exits = b.exits
  /\ \A d \in Dirs : setDir(gameState, d) = setDir_p0(gameState, d)
  /\ \A p \in RandomCells, full \in BOOLEAN :
       LET a == tick(gameState, localStorage, canvas, p, full)
           b == tick_p0(gameState, localStorage, canvas, p, full)
       IN  /\ a.gs = b.gs
           /\ a.store = b.store
           /\ a.out = b.out
           /\ a.exits = b.exits

\* C31 witness: the page of part_000 has reached a running session with a
\* snake of five cells about to run into itself, and tick of script.js
\* called on it ends the session as well.
C31_Witness ==
  /\ impl = "part_000"
  /\ gameState.running
  /\ Len(gameState.snake) = 5
  /\ gameState.nextDir # gameState.dir
  /\ tick(gameState, localStorage, canvas, Cell(5, 5), FALSE).out = "collision"
  /\ tick_p0(gameState, localStorage, canvas, Cell(5, 5), FALSE).out = "collision"

====
